---- MODULE Spec2Model ----
(***************************************************************************)
(* Model of the DiffViewer controller of src/src/ui/static/diff-viewer.js: *)
(* the change registry (files, appliedChanges), the confirmation modal,    *)
(* file navigation, the apply / unapply / complete round trips to the      *)
(* backend and the sequential applyAllChanges loop.  Every handler of the  *)
(* class is one action; every fetch is a request that stays outstanding    *)
(* until the step that runs the code after its await.                      *)
(***************************************************************************)
EXTENDS Integers, Sequences, FiniteSets, Bags, TLC

\* Bounds of the exploration.
MaxSingle == 2      \* requests issued by clicks and keys (apply, unapply, complete)
MaxRuns == 1        \* invocations of applyAllChanges

VARIABLES
    phase,              \* position of init(): "loading", "ready", "failed"; "closed" after window.close()
    session,            \* this.session: NoSession (null) or the snapshot's session fields
    files,              \* this.files: sequence of files, each a sequence of changes [id, applied]
    appliedChanges,     \* this.appliedChanges: Set of change ids
    currentFileIndex,   \* this.currentFileIndex (0-based, as in the code)
    pendingAction,      \* this.pendingAction: "none" (undefined / null) or the method the callback calls
    statusText,         \* textContent of #session-status
    panelDisabled,      \* disabled attribute of the .actions-panel buttons
    buttons,            \* the rendered .change-actions buttons: id -> [kind, disabled]
    reqs,               \* the outstanding fetches (a bag: two clicks give two equal requests)
    authApplied,        \* the backend's own applied set
    tracked,            \* whether the backend's handling of each request is a step of its own
    runs,               \* the invocations of applyAllChanges, in the order they started
    completions,        \* number of successful complete responses processed
    singles,            \* number of requests issued by clicks and keys so far
    last                \* the outcome the last step processed, if it processed one

vars == <<phase, session, files, appliedChanges, currentFileIndex, pendingAction,
          statusText, panelDisabled, buttons, reqs, authApplied, tracked, runs,
          completions, singles, last>>

NoSession == [loaded |-> FALSE, status |-> ""]
OrphanId == 9       \* an id that is in no file

----------------------------------------------------------------------------
\* Session snapshots the backend may return for GET /api/session/<id>.

Layouts ==
    { <<>>,
      << <<1, 2>> >>,
      << <<1>>, <<2>> >> }

\* Three files, the first one alone with a change.
WideLayout == << <<1>>, <<>>, <<>> >>

RECURSIVE Flatten(_)
Flatten(fs) == IF fs = <<>> THEN <<>> ELSE Head(fs) \o Flatten(Tail(fs))

SeqRange(s) == { s[i] : i \in DOMAIN s }

\* The wire files of a layout whose per-change applied fields are given by flagged.
WireFiles(layout, flagged) ==
    [ f \in DOMAIN layout |->
        [ c \in DOMAIN layout[f] |->
            [id |-> layout[f][c], applied |-> layout[f][c] \in flagged] ] ]

Snapshot(layout, lst, flagged) ==
    [files |-> WireFiles(layout, flagged), applied_changes |-> lst, status |-> "active"]

\* applied_changes may name an id that is in no file; the per-change applied
\* fields agree with applied_changes, or they are false (or absent) where
\* applied_changes names the change: the two disagree.
Snapshots ==
    { Snapshot(<<>>, {}, {}), Snapshot(<<>>, {OrphanId}, {}) }
    \cup UNION { { Snapshot(layout, {}, {}),
                   Snapshot(layout, {1}, {1}),
                   Snapshot(layout, {2, OrphanId}, {}) } : layout \in Layouts \ {<<>>} }
    \cup { Snapshot(WideLayout, {}, {}) }

----------------------------------------------------------------------------
\* Helpers over the registry and the page.

allChanges == Flatten(files)

ChangeIds == { allChanges[i].id : i \in DOMAIN allChanges }

\* renderChanges / createChangeElement: one fresh, enabled button per change of
\* the file, chosen by the change's applied field.
RenderChanges(changes) ==
    [ id \in { changes[i].id : i \in DOMAIN changes } |->
        [ kind |-> IF changes[CHOOSE i \in DOMAIN changes : changes[i].id = id].applied
                   THEN "unapply" ELSE "apply",
          disabled |-> FALSE ] ]

RenderCurrentFile(fs, idx) ==
    IF Len(fs) = 0 THEN <<>> ELSE RenderChanges(fs[idx + 1])

\* updateProgress: the number of changes of all files.
TotalChanges(fs) == Len(Flatten(fs))

\* updateProgress: the percentage it computes, (appliedCount / totalChanges) * 100,
\* kept as the fraction num / den.
Percentage(fs, S) ==
    IF TotalChanges(fs) > 0
    THEN [num |-> Cardinality(S) * 100, den |-> TotalChanges(fs)]
    ELSE [num |-> 0, den |-> 1]

\* updateStatusBar: rewrites #session-status from this.session.status.
UpdateStatusBar(sess, text) ==
    IF sess.loaded THEN sess.status ELSE text

\* updateChangeElement: replaces the button of the rendered element, if any.
UpdateChangeElement(btns, id, applied) ==
    IF id \in DOMAIN btns
    THEN [btns EXCEPT ![id] = [kind |-> IF applied THEN "unapply" ELSE "apply",
                               disabled |-> FALSE]]
    ELSE btns

\* last: what the last step was, when it was a click on a button of the
\* confirmation modal ("confirm", "cancel") or ran the code after the awaits of a
\* call (with result.success "success", else "failure"); Idle otherwise.
Idle == "none"

Outcome(ok) == IF ok THEN "success" ELSE "failure"

\* A fetch: run is 0 for a call made by a click or a key, else the index in runs
\* of the applyAllChanges invocation that made it.  stage is "sent" until the
\* backend has carried the request out, and "ok" once it has.
Request(kind, id, run) == [kind |-> kind, id |-> id, run |-> run, stage |-> "sent"]

One(r) == SetToBag({r})

----------------------------------------------------------------------------
Loading ==
    /\ phase = "loading"
    /\ session = NoSession
    /\ files = <<>>
    /\ appliedChanges = {}
    /\ currentFileIndex = 0
    /\ pendingAction = "none"
    /\ statusText = ""
    /\ panelDisabled = FALSE
    /\ buttons = <<>>
    /\ reqs = EmptyBag
    /\ authApplied = {}
    /\ runs = <<>>
    /\ completions = 0
    /\ singles = 0
    /\ last = Idle

\* The backend is the environment: each response's success field is drawn where
\* the response is processed.
Init == Loading /\ tracked = FALSE

\* The backend is part of the system: it carries requests out one at a time.
InitAuth == Loading /\ tracked = TRUE

\* loadSession + init, success path: the registry is set from the snapshot and
\* the interface is rendered.
LoadSuccess(data) ==
    /\ phase = "loading"
    /\ phase' = "ready"
    /\ session' = [loaded |-> TRUE, status |-> data.status]
    /\ files' = data.files
    /\ appliedChanges' = data.applied_changes
    /\ authApplied' = data.applied_changes
    /\ buttons' = RenderCurrentFile(data.files, currentFileIndex)
    /\ statusText' = data.status
    /\ last' = Idle
    /\ UNCHANGED <<tracked, currentFileIndex, pendingAction, panelDisabled, reqs, runs,
                   completions, singles>>

\* loadSession throws (data.error, or the fetch fails): init() shows the error;
\* no listener is installed.
LoadFailPartial ==
    /\ phase = "loading"
    /\ phase' = "failed"
    /\ session' = [loaded |-> TRUE, status |-> "active"]
    /\ last' = Idle
    /\ UNCHANGED <<tracked, files, appliedChanges, currentFileIndex, pendingAction,
                   statusText, panelDisabled, buttons, reqs, authApplied, runs,
                   completions, singles>>

LoadFail ==
    /\ phase = "loading"
    /\ phase' = "failed"
    /\ last' = Idle
    /\ UNCHANGED <<tracked, session, files, appliedChanges, currentFileIndex, pendingAction,
                   statusText, panelDisabled, buttons, reqs, authApplied, runs,
                   completions, singles>>

----------------------------------------------------------------------------
\* The registry updates of the code after the awaits.

\* this.appliedChanges.add(changeId)
AddAppliedLost(S, id) == {id}

AddApplied(S, id) == S \cup {id}

\* this.appliedChanges.delete(changeId)
DeleteApplied(S, id) == S \ {id}

\* applyChange after its awaits: the set is touched only under result.success;
\* success:false and a thrown error only show a message.
ApplyOutcomeOptimistic(S, id, ok) == AddApplied(S, id)

ApplyOutcomeDropped(S, id, ok) == S

ApplyOutcome(S, id, ok) == IF ok THEN AddApplied(S, id) ELSE S

\* unapplyChange after its awaits.
UnapplyOutcome(S, id, ok) == IF ok THEN DeleteApplied(S, id) ELSE S

\* The files after an apply / unapply outcome: neither handler writes a change's
\* applied field.
FilesAfterOutcome(fs, id, ok) == fs

\* The test of the for loop of applyAllChanges.
SkippedByFlag(change, S) == change.applied

Skipped(change, S) == change.id \in S

\* The for loop of applyAllChanges from position from on: the first change that
\* is not skipped (0 when the loop runs off the end).
NextAny(from, S) == IF from <= Len(allChanges) THEN from ELSE 0

NextUnapplied(from, S) ==
    LET cand == { k \in from..Len(allChanges) : ~Skipped(allChanges[k], S) }
    IN  IF cand = {} THEN 0 ELSE CHOOSE k \in cand : \A m \in cand : k <= m

\* A run that has started and has not run off the end of allChanges.
Active(run) == run.pos # 0

\* A run whose loop has ended; what it did is not kept.
Done == [pos |-> 0, start |-> {}, log |-> <<>>, oks |-> {}, foreign |-> {}]

\* The record of a run issuing the request of allChanges[k], or ending (k = 0).
Advance(run, k, id, oks) ==
    IF k = 0 THEN Done
    ELSE [run EXCEPT !.pos = k, !.log = Append(@, id), !.oks = oks]

\* The other invocations of applyAllChanges note an outcome that changed the set
\* underneath them.
NoteForeign(rs, except, kind, ok) ==
    [ j \in DOMAIN rs |->
        IF j # except /\ Active(rs[j]) /\ ok
        THEN [rs[j] EXCEPT !.foreign = @ \cup {kind}]
        ELSE rs[j] ]

----------------------------------------------------------------------------
\* User input.

\* click on a rendered "Apply" button: applyChange(id) up to its first await.
ClickApply(id) ==
    /\ phase = "ready"
    /\ singles < MaxSingle
    /\ id \in DOMAIN buttons
    /\ buttons[id].kind = "apply"
    /\ ~buttons[id].disabled
    /\ reqs' = reqs (+) One(Request("apply", id, 0))
    /\ singles' = singles + 1
    /\ last' = Idle
    /\ UNCHANGED <<tracked, phase, session, files, appliedChanges, currentFileIndex,
                   pendingAction, statusText, panelDisabled, buttons, authApplied,
                   runs, completions>>

\* click on a rendered "Unapply" button: unapplyChange(id) up to its first await.
ClickUnapply(id) ==
    /\ phase = "ready"
    /\ singles < MaxSingle
    /\ id \in DOMAIN buttons
    /\ buttons[id].kind = "unapply"
    /\ ~buttons[id].disabled
    /\ reqs' = reqs (+) One(Request("unapply", id, 0))
    /\ singles' = singles + 1
    /\ last' = Idle
    /\ UNCHANGED <<tracked, phase, session, files, appliedChanges, currentFileIndex,
                   pendingAction, statusText, panelDisabled, buttons, authApplied,
                   runs, completions>>

\* showConfirmation: the callback replaces whatever was pending.
ShowConfirmation(action) ==
    /\ pendingAction' = action
    /\ last' = Idle
    /\ UNCHANGED <<tracked, phase, session, files, appliedChanges, currentFileIndex,
                   statusText, panelDisabled, buttons, reqs, authApplied, runs,
                   completions, singles>>

\* click on #apply-all
ClickApplyAll ==
    /\ phase = "ready"
    /\ ~panelDisabled
    /\ Len(runs) < MaxRuns
    /\ ShowConfirmation("applyAllChanges")

\* click on #skip-all
ClickSkipAllApplying ==
    /\ phase = "ready"
    /\ ~panelDisabled
    /\ Len(runs) < MaxRuns
    /\ ShowConfirmation("applyAllChanges")

ClickSkipAll ==
    /\ phase = "ready"
    /\ ~panelDisabled
    /\ ShowConfirmation("completeSession")

\* click on #complete
ClickComplete ==
    /\ phase = "ready"
    /\ ~panelDisabled
    /\ ShowConfirmation("completeSession")

\* click on #apply-selected: applySelectedChanges only reports the size of the set.
ClickApplySelected ==
    /\ phase = "ready"
    /\ ~panelDisabled
    /\ last' = Idle
    /\ UNCHANGED <<tracked, phase, session, files, appliedChanges, currentFileIndex,
                   pendingAction, statusText, panelDisabled, buttons, reqs,
                   authApplied, runs, completions, singles>>

\* What applyAllChanges has sent when it suspends at "await this.applyChange":
\* the request of the change at position k it stopped at (none when k = 0).
FirstRequestsFanOut(k, j) ==
    SetToBag({ Request("apply", allChanges[m].id, j) :
                 m \in { n \in 1..Len(allChanges) :
                           k # 0 /\ n >= k /\ allChanges[n].id \notin appliedChanges } })

FirstRequests(k, j) ==
    IF k = 0 THEN EmptyBag ELSE One(Request("apply", allChanges[k].id, j))

\* applyAllChanges up to its first await: the loop skips the changes whose id is
\* in the set and issues the request of the first one that is not.
StartRun ==
    LET k  == NextUnapplied(1, appliedChanges)
        id == IF k = 0 THEN 0 ELSE allChanges[k].id
    IN  /\ runs' = Append(runs, Advance([Done EXCEPT !.start = ChangeIds \ appliedChanges],
                                         k, id, {}))
        /\ reqs' = reqs (+) FirstRequests(k, Len(runs) + 1)
        /\ UNCHANGED singles

\* completeSession up to its first await.
StartComplete ==
    /\ reqs' = reqs (+) One(Request("complete", 0, 0))
    /\ singles' = singles + 1

\* Whether the #modal-confirm handler calls the callback.
Invokes(p) == p # "none"

\* this.pendingAction after the #modal-confirm handler.
PendingAfterConfirmKept(p) == p

PendingAfterConfirm(p) == "none"

\* click on #modal-confirm
ModalConfirm ==
    /\ phase = "ready"
    /\ pendingAction = "completeSession" => singles < MaxSingle
    /\ CASE Invokes(pendingAction) /\ pendingAction = "applyAllChanges" -> StartRun
         [] Invokes(pendingAction) /\ pendingAction = "completeSession" ->
                StartComplete /\ UNCHANGED runs
         [] OTHER -> UNCHANGED <<reqs, runs, singles>>
    /\ pendingAction' = PendingAfterConfirm(pendingAction)
    /\ last' = "confirm"
    /\ UNCHANGED <<tracked, phase, session, files, appliedChanges, currentFileIndex,
                   statusText, panelDisabled, buttons, authApplied, completions>>

\* click on #modal-cancel
ModalCancel ==
    /\ phase = "ready"
    /\ pendingAction' = "none"
    /\ last' = "cancel"
    /\ UNCHANGED <<tracked, phase, session, files, appliedChanges, currentFileIndex,
                   statusText, panelDisabled, buttons, reqs, authApplied, runs,
                   completions, singles>>

\* keydown Ctrl/Cmd+Enter: completeSession() is called directly.
KeyCtrlEnter ==
    /\ phase = "ready"
    /\ singles < MaxSingle
    /\ StartComplete
    /\ last' = Idle
    /\ UNCHANGED <<tracked, phase, session, files, appliedChanges, currentFileIndex,
                   pendingAction, statusText, panelDisabled, buttons, authApplied,
                   runs, completions>>

\* Whether renderInterface gets through renderCurrentFile: at an index outside
\* a non-empty list currentFile is undefined and the handler throws before it
\* renders anything.
Renders(fs, idx) == Len(fs) = 0 \/ idx + 1 \in DOMAIN fs

\* The test of navigateFile on the index it would move to.
InRangePositive(newIndex, n) == newIndex > 0 /\ newIndex < n

InRangeInclusive(newIndex, n) == newIndex >= 0 /\ newIndex <= n

InRange(newIndex, n) == newIndex >= 0 /\ newIndex < n

\* navigateFile(direction): #prev-file, #next-file, Ctrl/Cmd+Arrow.
NavigateFile(direction) ==
    LET newIndex == currentFileIndex + direction
    IN  /\ phase = "ready"
        /\ IF InRange(newIndex, Len(files))
           THEN /\ currentFileIndex' = newIndex
                /\ buttons' = IF Renders(files, newIndex)
                              THEN RenderCurrentFile(files, newIndex) ELSE buttons
                /\ statusText' = IF Renders(files, newIndex)
                                 THEN UpdateStatusBar(session, statusText) ELSE statusText
           ELSE UNCHANGED <<currentFileIndex, buttons, statusText>>
        /\ last' = Idle
        /\ UNCHANGED <<tracked, phase, session, files, appliedChanges, pendingAction,
                       panelDisabled, reqs, authApplied, runs, completions, singles>>

\* click on a file tab
TabClick(index) ==
    /\ phase = "ready"
    /\ index \in 0..(Len(files) - 1)
    /\ currentFileIndex' = index
    /\ buttons' = IF Renders(files, index) THEN RenderCurrentFile(files, index) ELSE buttons
    /\ statusText' = IF Renders(files, index)
                     THEN UpdateStatusBar(session, statusText) ELSE statusText
    /\ last' = Idle
    /\ UNCHANGED <<tracked, phase, session, files, appliedChanges, pendingAction,
                   panelDisabled, reqs, authApplied, runs, completions, singles>>

----------------------------------------------------------------------------
\* The backend.

\* The backend carries a request out: an apply / unapply takes effect in its own
\* applied set and the success response is on its way.  (A request the backend
\* refuses leaves the backend as it was: its outcome is drawn where the
\* response is processed.)
AuthorityProcess(r) ==
    /\ phase = "ready"
    /\ r \in BagToSet(reqs)
    /\ r.stage = "sent"
    /\ tracked
    /\ reqs' = (reqs (-) One(r)) (+) One([r EXCEPT !.stage = "ok"])
    /\ authApplied' = IF r.kind = "apply" THEN authApplied \cup {r.id}
                      ELSE IF r.kind = "unapply" THEN authApplied \ {r.id}
                      ELSE authApplied
    /\ last' = Idle
    /\ UNCHANGED <<tracked, phase, session, files, appliedChanges, currentFileIndex,
                   pendingAction, statusText, panelDisabled, buttons, runs,
                   completions, singles>>

----------------------------------------------------------------------------
\* The code after the awaits.  A request the backend carried out resolves with
\* success:true; one it did not resolves with success:false or its fetch rejects.

Resolves(r, ok) == r \in BagToSet(reqs) /\ (tracked => (ok <=> r.stage = "ok"))

\* Where the loop of applyAllChanges goes on after the call for position pos
\* returned: applyChange catches its own errors, so the loop goes on whatever
\* the outcome was.
ResumeAtAbort(pos, S, ok) == IF ok THEN NextUnapplied(pos + 1, S) ELSE 0

ResumeAtRetry(pos, S, ok) == IF ok THEN NextUnapplied(pos + 1, S) ELSE pos

ResumeAt(pos, S, ok) == NextUnapplied(pos + 1, S)

\* applyAllChanges resumes after "await this.applyChange(change.id)": the run
\* owning request r goes on from the change after the one it asked for.
ResumeRuns(r, ok, S, rest) ==
    IF r.run = 0
    THEN [rs |-> NoteForeign(runs, 0, "apply", ok), rq |-> rest]
    ELSE LET run == runs[r.run]
             k   == ResumeAt(run.pos, S, ok)
             id  == IF k = 0 THEN 0 ELSE allChanges[k].id
             adv == Advance(run, k, id, IF ok THEN run.oks \cup {r.id} ELSE run.oks)
         IN  [rs |-> [NoteForeign(runs, r.run, "apply", ok) EXCEPT ![r.run] = adv],
              rq |-> IF k = 0 THEN rest ELSE rest (+) One(Request("apply", id, r.run))]

\* applyChange from the resolution of its fetch to its return, and the loop of
\* applyAllChanges that awaited it.
ApplyResponse(r, ok) ==
    /\ phase = "ready"
    /\ Resolves(r, ok)
    /\ r.kind = "apply"
    /\ LET S    == ApplyOutcome(appliedChanges, r.id, ok)
           cont == ResumeRuns(r, ok, S, reqs (-) One(r))
       IN  /\ appliedChanges' = S
           /\ files' = FilesAfterOutcome(files, r.id, ok)
           /\ buttons' = IF ok THEN UpdateChangeElement(buttons, r.id, TRUE) ELSE buttons
           /\ runs' = cont.rs
           /\ reqs' = cont.rq
           /\ last' = Outcome(ok)
    /\ UNCHANGED <<tracked, phase, session, currentFileIndex, pendingAction, statusText,
                   panelDisabled, authApplied, completions, singles>>

\* unapplyChange from the resolution of its fetch to its return.
UnapplyResponse(r, ok) ==
    /\ phase = "ready"
    /\ Resolves(r, ok)
    /\ r.kind = "unapply"
    /\ appliedChanges' = UnapplyOutcome(appliedChanges, r.id, ok)
    /\ files' = FilesAfterOutcome(files, r.id, ok)
    /\ buttons' = IF ok THEN UpdateChangeElement(buttons, r.id, FALSE) ELSE buttons
    /\ runs' = NoteForeign(runs, 0, "unapply", ok)
    /\ reqs' = reqs (-) One(r)
    /\ last' = Outcome(ok)
    /\ UNCHANGED <<tracked, phase, session, currentFileIndex, pendingAction, statusText,
                   panelDisabled, authApplied, completions, singles>>

\* The test of completeSession on the response: result.success.
FinalizesAlways(ok) == TRUE

Finalizes(ok) == ok

\* The applied_changes lists a success response of complete may carry: the
\* backend's own set when its steps are modelled, any list otherwise.
ReportedLists == { {}, {1, 2} }

Reported == IF tracked THEN {authApplied} ELSE ReportedLists

\* this.appliedChanges after the success branch of completeSession: the branch
\* reads result.applied_changes.length for its message and writes nothing of the
\* registry.
RegistryAdoptsReported(S, reported) == reported

RegistryAfterComplete(S, reported) == S

\* completeSession from the resolution of its fetch to its return: on success
\* the status text is set, the buttons now in the page are disabled and the
\* window.close() timer is armed.
CompleteResponse(r, ok) ==
    /\ phase = "ready"
    /\ Resolves(r, ok)
    /\ r.kind = "complete"
    /\ IF Finalizes(ok)
       THEN /\ statusText' = "Completed"
            /\ panelDisabled' = TRUE
            /\ buttons' = [id \in DOMAIN buttons |-> [buttons[id] EXCEPT !.disabled = TRUE]]
            /\ completions' = completions + 1
            /\ \E reported \in Reported :
                  appliedChanges' = RegistryAfterComplete(appliedChanges, reported)
       ELSE UNCHANGED <<statusText, panelDisabled, buttons, completions, appliedChanges>>
    /\ reqs' = reqs (-) One(r)
    /\ last' = Outcome(ok)
    /\ UNCHANGED <<tracked, phase, session, files, currentFileIndex,
                   pendingAction, authApplied, runs, singles>>

\* The timer armed by a successful completion fires: window.close().
WindowClose ==
    /\ phase = "ready"
    /\ completions > 0
    /\ phase' = "closed"
    /\ last' = Idle
    /\ UNCHANGED <<tracked, session, files, appliedChanges, currentFileIndex, pendingAction,
                   statusText, panelDisabled, buttons, reqs, authApplied, runs,
                   completions, singles>>

----------------------------------------------------------------------------
Client ==
    \/ \E data \in Snapshots : LoadSuccess(data)
    \/ LoadFail
    \/ \E id \in 1..2 : ClickApply(id)
    \/ \E id \in 1..2 : ClickUnapply(id)
    \/ ClickApplyAll
    \/ ClickSkipAll
    \/ ClickComplete
    \/ ClickApplySelected
    \/ ModalConfirm
    \/ ModalCancel
    \/ KeyCtrlEnter
    \/ \E d \in {-1, 1} : NavigateFile(d)
    \/ \E index \in 0..2 : TabClick(index)
    \/ \E r \in BagToSet(reqs), ok \in BOOLEAN : ApplyResponse(r, ok)
    \/ \E r \in BagToSet(reqs), ok \in BOOLEAN : UnapplyResponse(r, ok)
    \/ \E r \in BagToSet(reqs), ok \in BOOLEAN : CompleteResponse(r, ok)
    \/ WindowClose

Next == Client

NextAuth ==
    \/ Client
    \/ \E r \in BagToSet(reqs) : AuthorityProcess(r)

Spec == Init /\ [][Next]_vars

\* Every request of a run of applyAllChanges gets its outcome: the code after the
\* await of an outstanding request of the run is eventually run.
RunFairness ==
    \A j \in 1..MaxRuns :
        WF_vars(\E r \in BagToSet(reqs), ok \in BOOLEAN : r.run = j /\ ApplyResponse(r, ok))

SpecLive == Spec /\ RunFairness

SpecAuth == InitAuth /\ [][NextAuth]_vars

----------------------------------------------------------------------------
\* Vocabulary of the properties.

AllIds == [ i \in DOMAIN allChanges |-> allChanges[i].id ]

\* { c.id : c.applied }
FlaggedIds == { allChanges[i].id : i \in { k \in DOMAIN allChanges : allChanges[k].applied } }

Consistent == appliedChanges = FlaggedIds

\* The step ran the code after the awaits of the call that sent r.
Processed(r) == r \in BagToSet(reqs) /\ CopiesIn(r, reqs') < CopiesIn(r, reqs)

\* The step sent a request of this kind that a click or a key asked for.
Sent(kind) ==
    \E id \in 0..2 : CopiesIn(Request(kind, id, 0), reqs') > CopiesIn(Request(kind, id, 0), reqs)

\* The step started an invocation of applyAllChanges.
RunStarted == Len(runs') > Len(runs)

\* Run j sent a request in the step.
RunSent(j) ==
    /\ j \in DOMAIN runs'
    /\ Active(runs'[j])
    /\ (j \in DOMAIN runs => runs'[j].pos # runs[j].pos)

\* Number of outstanding requests of run j.
RunOutstanding(j) ==
    BagCardinality([ r \in { x \in BagToSet(reqs) : x.run = j } |-> reqs[r] ])

----------------------------------------------------------------------------
\* C1: the aggregate applied set equals the set of ids of the changes whose
\* applied field is true -- here in the form: a step taken from a state where the
\* two agree ends in a state where they agree.  (A snapshot whose applied fields
\* differ from its applied_changes breaks the equality at load already.)
C1_AppliedSetConsistency ==
    [][(phase = "ready" /\ Consistent) => Consistent']_vars

\* C2: once a complete request has succeeded no apply, unapply or complete
\* request is sent any more, and the session is finalized once.
C2_FinalizationFreeze ==
    [][completions > 0 =>
          /\ ~Sent("apply") /\ ~Sent("unapply") /\ ~Sent("complete")
          /\ \A j \in DOMAIN runs' : ~RunSent(j)
          /\ completions' = completions]_vars

\* C3: the registry (the changes' applied fields and the aggregate set) is not
\* changed by the step that sends an apply / unapply request nor by any step while
\* the request is outstanding, except by a step that processes a success
\* response, and that step changes nothing but the membership of the id of its
\* own request; a step that processes a failure leaves the registry as it was.
C3_UpdateOnlyAfterConfirmation ==
    [][phase = "ready" =>
          /\ (<<files, appliedChanges>>' # <<files, appliedChanges>> =>
                /\ last' = "success"
                /\ \E r \in BagToSet(reqs) :
                      /\ Processed(r)
                      /\ r.kind \in {"apply", "unapply"}
                      /\ appliedChanges' \ {r.id} = appliedChanges \ {r.id})
          /\ (last' = "failure" => <<files, appliedChanges>>' = <<files, appliedChanges>>)]_vars

\* An apply request of a run failed (its id is logged, not in oks, and the run
\* has gone on to its second request) and its id is still not in the set.
C3_Witness ==
    /\ last = "failure"
    /\ \E j \in DOMAIN runs :
          /\ Active(runs[j])
          /\ Len(runs[j].log) = 2
          /\ runs[j].oks = {}
          /\ runs[j].foreign = {}
          /\ runs[j].log[1] \notin appliedChanges

\* The ids, in file order then in-file order, of the changes among the first n
\* whose id is in S.
InOrder(n, S) == SelectSeq(SubSeq(AllIds, 1, n), LAMBDA id : id \in S)

\* C4 as stated: a run of applyAllChanges sends one apply request for each change
\* whose id was not in the set when applyAllChanges was called, and for no other
\* change, in file order then in-file order, whatever single calls complete
\* meanwhile.  (Checked on the step that ends the run.)
C4_BulkAttemptsCallTimeSet ==
    [][\A j \in DOMAIN runs :
          (Active(runs[j]) /\ ~Active(runs'[j])) =>
              runs[j].log = InOrder(Len(allChanges), runs[j].start)]_vars

\* C4 as amended: the requests of a run are for changes at increasing positions
\* (so at most one per change, in file order then in-file order), each for a
\* change whose id is not in the set when its request is sent; and if no other
\* call's success response is processed while the run is in progress, the run
\* has sent exactly the requests of the changes whose id was not in the set at
\* call time, up to where it is, and all of them when it ends.
C4_BulkAttemptsInOrder ==
    [][\A j \in DOMAIN runs :
          Active(runs[j]) =>
              LET run == runs[j]
              IN  /\ run.log[Len(run.log)] = allChanges[run.pos].id
                  /\ run.log = InOrder(run.pos, SeqRange(run.log))
                  /\ (run.foreign = {} => run.log = InOrder(run.pos, run.start))
                  /\ (run.foreign = {} /\ ~Active(runs'[j]) =>
                          run.log = InOrder(Len(allChanges), run.start))
                  /\ (RunSent(j) => allChanges[runs'[j].pos].id \notin appliedChanges')]_vars

\* A run undisturbed by other calls has sent its second request, for the last
\* change, the set having been empty when it was called.
C4_Witness ==
    \E j \in DOMAIN runs :
        /\ Active(runs[j])
        /\ runs[j].foreign = {}
        /\ runs[j].start = {1, 2}
        /\ runs[j].log = <<1, 2>>

\* C5: a run never has more than one request outstanding; while it is in
\* progress its one outstanding request is the last it sent, so that every
\* earlier request has had its outcome processed, and the id of every earlier
\* request that succeeded was written to the set (it is in the set unless a
\* later unapply of another call took it out).
C5_BulkStrictlySequential ==
    \A j \in DOMAIN runs :
        LET run == runs[j]
        IN  /\ RunOutstanding(j) = IF Active(run) THEN 1 ELSE 0
            /\ Active(run) =>
                  /\ \E r \in BagToSet(reqs) : r.run = j /\ r.kind = "apply"
                                                /\ r.id = run.log[Len(run.log)]
                  /\ run.oks \subseteq { run.log[i] : i \in 1..(Len(run.log) - 1) }
                  /\ ("unapply" \notin run.foreign => run.oks \subseteq appliedChanges)

\* A run waits for its second request after its first one succeeded.
C5_Witness ==
    \E j \in DOMAIN runs :
        /\ Active(runs[j])
        /\ Len(runs[j].log) = 2
        /\ runs[j].oks = {runs[j].log[1]}
        /\ RunOutstanding(j) = 1

\* C6: a failed request does not end the run: after any outcome the run goes on
\* to the next change whose id is not in the set, if there is one; and when a
\* run that no other call disturbed ends, every change whose id was not in the
\* set at call time has been attempted, those whose requests succeeded are in
\* the set and those whose requests failed are not.
C6_BulkContinuesAfterFailure ==
    [][\A j \in DOMAIN runs :
          Active(runs[j]) =>
              LET run   == runs[j]
                  mine  == Request("apply", allChanges[run.pos].id, j)
                  oks   == IF last' = "success" THEN run.oks \cup {mine.id} ELSE run.oks
                  after == { k \in (run.pos + 1)..Len(allChanges) :
                               allChanges[k].id \notin appliedChanges' }
              IN  Processed(mine) =>
                    /\ (after # {} =>
                          /\ Active(runs'[j])
                          /\ runs'[j].pos \in after
                          /\ \A k \in after : runs'[j].pos <= k
                          /\ CopiesIn(Request("apply", allChanges[runs'[j].pos].id, j), reqs') = 1)
                    /\ (after = {} => ~Active(runs'[j]))
                    /\ (last' = "failure" => appliedChanges' = appliedChanges)
                    /\ (after = {} /\ run.foreign = {} =>
                          /\ SeqRange(run.log) = run.start
                          /\ appliedChanges' \cap run.start = oks
                          /\ (run.start \ oks) \cap appliedChanges' = {})]_vars

\* The first request of an undisturbed run failed and the run has sent its
\* second one; the failed change is not in the set.
C6_Witness ==
    \E j \in DOMAIN runs :
        /\ Active(runs[j])
        /\ runs[j].foreign = {}
        /\ runs[j].log = <<1, 2>>
        /\ runs[j].oks = {}
        /\ 1 \notin appliedChanges
        /\ RunOutstanding(j) = 1

\* C7: the backend's applied set being the snapshot's at load and every request
\* being answered, the controller's set equals the backend's in every state with
\* no request outstanding.
C7_ConsistentWithAuthority ==
    (phase = "ready" /\ reqs = EmptyBag) => appliedChanges = authApplied

\* C8: the step that processes the outcome of an apply / unapply call changes the
\* membership of no id but its own, also while a call for another id is
\* outstanding, and after a success its own id is in the set (apply) or out of
\* it (unapply).
C8_NoLostUpdates ==
    [][\A r \in BagToSet(reqs) :
          (phase = "ready" /\ Processed(r) /\ r.kind \in {"apply", "unapply"}) =>
              /\ appliedChanges' \ {r.id} = appliedChanges \ {r.id}
              /\ (last' = "success" => (r.id \in appliedChanges' <=> r.kind = "apply"))]_vars

\* Two applyChange calls of clicks, for different ids, were outstanding together;
\* the success of one has been processed while the other is still outstanding:
\* its id is in the set, and the id the set held before is still there.
C8_Witness ==
    /\ last = "success"
    /\ completions = 0
    /\ runs = <<>>
    /\ singles = 2
    /\ \E id \in {1, 2} :
          /\ reqs = One(Request("apply", 3 - id, 0))
          /\ appliedChanges = {id, OrphanId}

\* C9: every complete request and every run of applyAllChanges is started by a
\* click on #modal-confirm with that action pending.
C9_SessionEndingActionsConfirmed ==
    [][/\ Sent("complete") => (last' = "confirm" /\ pendingAction = "completeSession")
       /\ RunStarted => (last' = "confirm" /\ pendingAction = "applyAllChanges")]_vars

\* C10: a click on #modal-confirm calls the pending action once (one run of
\* applyAllChanges is started, or one complete request is sent, and nothing
\* else) and leaves nothing pending; with nothing pending it does nothing; a
\* click on #modal-cancel leaves nothing pending and calls nothing; a step that
\* replaces a pending action by another calls nothing.
C10_ConfirmationGate ==
    [][/\ pendingAction' \in {"none", "applyAllChanges", "completeSession"}
       /\ last' = "confirm" =>
             /\ pendingAction' = "none"
             /\ CASE pendingAction = "applyAllChanges" ->
                        /\ Len(runs') = Len(runs) + 1
                        /\ SubSeq(runs', 1, Len(runs)) = runs
                        /\ BagCardinality(reqs') <= BagCardinality(reqs) + 1
                        /\ ~Sent("complete") /\ ~Sent("unapply")
                  [] pendingAction = "completeSession" ->
                        /\ reqs' = reqs (+) One(Request("complete", 0, 0))
                        /\ runs' = runs
                  [] OTHER -> reqs' = reqs /\ runs' = runs
       /\ last' = "cancel" => (pendingAction' = "none" /\ reqs' = reqs /\ runs' = runs)
       /\ (pendingAction # "none" /\ pendingAction' \notin {"none", pendingAction}) =>
             (reqs' = reqs /\ runs' = runs)]_vars

\* A pending applyAllChanges was confirmed: the run it started is in progress
\* with its one request outstanding, nothing is pending any more and no complete
\* request was sent.
C10_Witness ==
    /\ last = "confirm"
    /\ pendingAction = "none"
    /\ Len(runs) = 1
    /\ Active(runs[1])
    /\ singles = 0
    /\ BagCardinality(reqs) = 1

\* C11: navigateFile(-1) at index 0 and navigateFile(1) at the last index leave
\* currentFileIndex as it is; every other navigateFile(d), d in {-1, 1}, moves
\* it by exactly d.
C11_NavigationStep ==
    [][\A d \in {-1, 1} :
          NavigateFile(d) =>
              currentFileIndex' =
                  IF \/ (d = -1 /\ currentFileIndex = 0)
                     \/ (d = 1 /\ currentFileIndex = Len(files) - 1)
                     \/ Len(files) = 0
                  THEN currentFileIndex
                  ELSE currentFileIndex + d]_vars

\* The focus is on the last of three files: from index 0 it takes two moves
\* through the middle file, or a click on the last tab.
C11_Witness ==
    /\ phase = "ready"
    /\ Len(files) = 3
    /\ currentFileIndex = 2
    /\ buttons = <<>>
    /\ pendingAction = "none"
    /\ reqs = EmptyBag

\* C12: whenever the file list is not empty, currentFileIndex is an index of it.
C12_NavigationInvariant ==
    Len(files) > 0 => currentFileIndex \in 0..(Len(files) - 1)

\* The focus is on the middle one of three files while a request is outstanding.
C12_Witness ==
    /\ phase = "ready"
    /\ Len(files) = 3
    /\ currentFileIndex = 1
    /\ reqs # EmptyBag

\* C13: the percentage updateProgress computes is between 0 and 100, and it is 0
\* when no file has a change.
C13_ProgressBounds ==
    phase = "ready" =>
        LET p == Percentage(files, appliedChanges)
        IN  /\ 0 <= p.num
            /\ p.num <= 100 * p.den
            /\ (TotalChanges(files) = 0 => p.num = 0)

\* C14: once a complete request has succeeded the session's status is
\* "completed", and the status shown is the completed one, in every later state.
C14_CompletionPermanent ==
    completions > 0 => (session.status = "completed" /\ statusText = "Completed")

\* C15: the step that processes a failed complete request leaves the session's
\* status "active" and the status shown, the files and the set as they were,
\* sends no request (the failed one is gone and none is added), and leaves the
\* page as it was, so that the user can ask for completion again.
C15_FailedCompletionKeepsSession ==
    [][\A r \in BagToSet(reqs) :
          (phase = "ready" /\ r.kind = "complete" /\ Processed(r) /\ last' = "failure") =>
              /\ session' = session
              /\ session'.status = "active"
              /\ statusText' = statusText
              /\ files' = files
              /\ appliedChanges' = appliedChanges
              /\ reqs' = reqs (-) One(r)
              /\ runs' = runs
              /\ <<phase, panelDisabled, buttons, pendingAction, completions>>' =
                     <<phase, panelDisabled, buttons, pendingAction, completions>>]_vars

\* No file has a change, so every request was a complete request: the first one
\* failed, and the second one, asked for through the modal, is outstanding.
C15_Witness ==
    /\ files = <<>>
    /\ phase = "ready"
    /\ singles = 2
    /\ completions = 0
    /\ last = "confirm"
    /\ reqs = One(Request("complete", 0, 0))

\* C16: a failed load leaves the registry as the constructor made it (no
\* session, no file, the empty set) and no request outstanding, and init() ends
\* in its failure state, which no step leaves: the load is not tried again and
\* no handler is installed.
C16_LoadFailureNoPartialSession ==
    [][/\ phase # "failed"
       /\ (phase = "loading" /\ phase' # "ready") =>
             /\ phase' = "failed"
             /\ session' = NoSession
             /\ files' = <<>>
             /\ appliedChanges' = {}
             /\ reqs' = EmptyBag
             /\ runs' = <<>>]_vars

\* init() has ended in its failure state.
C16_Witness ==
    /\ phase = "failed"
    /\ session = NoSession
    /\ files = <<>>
    /\ appliedChanges = {}

\* Every change's applied field is true exactly when its id is in the set.
FlagsAgree ==
    \A i \in DOMAIN allChanges : allChanges[i].applied <=> allChanges[i].id \in appliedChanges

\* C17: right after a successful load every change's applied field is true
\* exactly when its id is in the set (the set being the snapshot's
\* applied_changes).
C17_LoadReconciliation ==
    [][(phase = "loading" /\ phase' = "ready") => FlagsAgree']_vars

\* C18: the step that processes a successful complete response leaves the files
\* (every applied field) and the set as they were, whatever applied_changes
\* list the response carries.
C18_CompletionKeepsRegistry ==
    [][\A r \in BagToSet(reqs) :
          (phase = "ready" /\ r.kind = "complete" /\ Processed(r) /\ last' = "success") =>
              /\ files' = files
              /\ appliedChanges' = appliedChanges]_vars

\* The only request ever sent was a complete request, and its success has been
\* processed with change 1 alone in the set (the response may have listed
\* other ids).
C18_Witness ==
    /\ last = "success"
    /\ completions = 1
    /\ singles = 1
    /\ runs = <<>>
    /\ statusText = "Completed"
    /\ appliedChanges = {1}

\* C19: a click on #skip-all leaves completeSession pending and sends nothing;
\* confirming it sends exactly one complete request, no apply or unapply
\* request, starts no run of applyAllChanges and leaves the set as it was.
C19_SkipAllCompletesOnly ==
    [][/\ ClickSkipAll =>
             /\ pendingAction' = "completeSession"
             /\ reqs' = reqs
             /\ runs' = runs
             /\ appliedChanges' = appliedChanges
       /\ (last' = "confirm" /\ pendingAction = "completeSession") =>
             /\ reqs' = reqs (+) One(Request("complete", 0, 0))
             /\ runs' = runs
             /\ appliedChanges' = appliedChanges
             /\ files' = files]_vars

\* The confirmed action sent the one complete request, the first request of
\* the session, while change 2 and the id of no file are in the set.
C19_Witness ==
    /\ last = "confirm"
    /\ pendingAction = "none"
    /\ reqs = One(Request("complete", 0, 0))
    /\ singles = 1
    /\ runs = <<>>
    /\ appliedChanges = {2, OrphanId}

\* C20: every request of a run being answered, a run of applyAllChanges that
\* is in progress ends (unless the window is closed first); its requests are
\* for changes at increasing positions, so it sends at most one request per
\* change and none again for a change whose request failed.
C20_BulkApplyTerminates ==
    /\ [](\A j \in DOMAIN runs :
             Active(runs[j]) =>
                 /\ runs[j].log = InOrder(runs[j].pos, SeqRange(runs[j].log))
                 /\ Len(runs[j].log) <= Len(allChanges))
    /\ \A j \in 1..MaxRuns :
          (j \in DOMAIN runs /\ Active(runs[j]))
              ~> (phase = "closed" \/ (j \in DOMAIN runs /\ ~Active(runs[j])))

\* A run has ended on the failure of its last request, both its requests having
\* failed: no click or key sent a request and the set is still empty.
C20_Witness ==
    /\ last = "failure"
    /\ Len(runs) = 1
    /\ ~Active(runs[1])
    /\ reqs = EmptyBag
    /\ singles = 0
    /\ Len(allChanges) = 2
    /\ appliedChanges = {}

\* C21: a run of applyAllChanges tests the set when it reaches a change: the
\* request it sends is for a change whose id is not in the set at that moment,
\* and every change it passed over since its previous request (since the
\* first change, for its first request) has its id in the set at that moment,
\* whatever the set was when the run started; a run that ends has passed over
\* the rest in the same way.
C21_BulkDecidesPerChange ==
    [][\A j \in DOMAIN runs' :
          LET from == IF j \in DOMAIN runs THEN runs[j].pos + 1 ELSE 1
              moved == j \in DOMAIN runs => (Active(runs[j]) /\ runs'[j] # runs[j]
                                               /\ runs'[j].pos # runs[j].pos)
              upto == IF Active(runs'[j]) THEN runs'[j].pos - 1 ELSE Len(allChanges')
          IN  moved =>
                /\ Active(runs'[j]) =>
                      /\ runs'[j].pos >= from
                      /\ allChanges'[runs'[j].pos].id \notin appliedChanges'
                      /\ CopiesIn(Request("apply", allChanges'[runs'[j].pos].id, j), reqs') = 1
                /\ \A m \in from..upto : allChanges'[m].id \in appliedChanges']_vars

\* Change 2 was applied when the run started (the run was to ask for change 1
\* alone); an unapply of another call took it out of the set while the run
\* waited for change 1, and the run has asked for change 2.
C21_Witness ==
    \E j \in DOMAIN runs :
        /\ Active(runs[j])
        /\ runs[j].start = {1}
        /\ runs[j].log = <<1, 2>>
        /\ "unapply" \in runs[j].foreign
        /\ RunOutstanding(j) = 1

\* C22: when a run of applyAllChanges ends, all its requests having succeeded
\* and no unapply having taken effect while it was in progress, the id of every
\* change of every file is in the set, which so has at least as many elements
\* as there are change ids.
C22_BulkAllSuccessPostcondition ==
    [][\A j \in DOMAIN runs' :
          LET began == j \notin DOMAIN runs
              ended == ~Active(runs'[j]) /\ (began \/ Active(runs[j]))
              oks   == IF began THEN {}
                       ELSE IF last' = "success"
                            THEN runs[j].oks \cup {allChanges[runs[j].pos].id}
                            ELSE runs[j].oks
              asked == IF began THEN {} ELSE SeqRange(runs[j].log)
              quiet == began \/ "unapply" \notin runs[j].foreign
          IN  (ended /\ oks = asked /\ quiet) =>
                /\ \A i \in DOMAIN allChanges' : allChanges'[i].id \in appliedChanges'
                /\ Cardinality(appliedChanges') >=
                       Cardinality({ allChanges'[i].id : i \in DOMAIN allChanges' })]_vars

\* The run has ended on the success of its last request; no click or key sent
\* a request, so every request was the run's, and both changes are in the set.
C22_Witness ==
    /\ last = "success"
    /\ Len(runs) = 1
    /\ ~Active(runs[1])
    /\ singles = 0
    /\ reqs = EmptyBag
    /\ Len(allChanges) = 2
    /\ appliedChanges = {1, 2}

====
